---- MODULE Spec2Model ----
(***************************************************************************)
(* Model of the media pipeline of language_pipeline:                       *)
(*   - text_to_speech_and_generate_video.py: generate_audio followed by    *)
(*     generate_video, as the script runs them (specification Spec, and    *)
(*     SpecScenario3 for the 25-row table of the spec's third scenario);   *)
(*   - gpt_langchain.py: process_data, i.e. one model response per         *)
(*     vocabulary entry followed by the flattening of the responses        *)
(*     (specification SpecSentences).                                      *)
(* Python's 0-based row index i is kept 0-based; dataframe[i + 1] is the   *)
(* row at position i.  The DataFrames come from read_excel / read_csv, so  *)
(* the index label of a row is its position.                               *)
(***************************************************************************)
EXTENDS Integers, Sequences, FiniteSets, TLC

(* ---------------------------------------------------------------- bounds *)
MaxRows == 5
MaxWordsPerVideo == 3
MaxEntries == 2
MaxMeanings == 2
ScenarioRows == 25
ScenarioWords == 12

(* ------------------------------------------------------ program constants *)
SilenceMs == 1500
ScenarioWordsPerVideo == 10

LanguageModes == {"EN_DE", "DE_EN", "BOTH", "FR_DE"}
SlidesFormats == {"2slides", "4slides", "3slides"}

(* ------------------------------------------------------------ the tables *)
\* The row at position k (0-based) of a table whose german_word column is ws.
\* The three other texts are distinct per row and per column.
TableRow(ws, k) ==
    [german_word |-> ws[k + 1],
     english_word |-> 100 + k,
     german_sentence |-> 200 + k,
     english_sentence |-> 300 + k]

TableOf(ws) == [k \in 1..Len(ws) |-> TableRow(ws, k - 1)]

\* Words are named by order of first appearance: the code only compares
\* words for equality, so every table is a renaming of one of these.
IsCanonical(ws) ==
    \A k \in 1..Len(ws) :
        \/ ws[k] = 1
        \/ \E j \in 1..(k - 1) : ws[j] = ws[k] \/ ws[j] = ws[k] - 1

WordLists(n) == {ws \in [1..n -> 1..n] : IsCanonical(ws)}

Tables == {TableOf(ws) : ws \in UNION {WordLists(n) : n \in 0..MaxRows}}

RECURSIVE Expand(_, _)
\* the german_word column of a table in which word w has counts[w] adjacent rows
Expand(counts, w) ==
    IF w > Len(counts) THEN <<>>
    ELSE [k \in 1..counts[w] |-> w] \o Expand(counts, w + 1)

\* ScenarioRows rows spanning ScenarioWords words: every word has one meaning
\* row; of the remaining rows, a are further meanings of some word h and the
\* others are further meanings of the last word.
ScenarioCounts ==
    LET extra == ScenarioRows - ScenarioWords
    IN  {[w \in 1..ScenarioWords |->
             1 + (IF w = h THEN a ELSE 0)
               + (IF w = ScenarioWords THEN extra - a ELSE 0)] :
         <<h, a>> \in (1..ScenarioWords) \X (0..extra)}

ScenarioTables == {TableOf(Expand(counts, 1)) : counts \in ScenarioCounts}

(* ------------------------------------------------------------ file names *)
Digit(d) == <<"0", "1", "2", "3", "4", "5", "6", "7", "8", "9">>[d + 1]

RECURSIVE str(_)
str(n) == IF n < 10 THEN Digit(n) ELSE str(n \div 10) \o Digit(n % 10)

\* f"{i}_{file_index}.mp3"
audio_file_name(i, file_index) == str(i) \o "_" \o str(file_index) \o ".mp3"

\* i // words_per_video + 1
batch_number(i, words_per_video) == (i \div words_per_video) + 1

\* f"combined_video_{...}_{slides_format}_{language_version}.mp4"
video_file_name(number, slides_format, language_version) ==
    "combined_video_" \o str(number) \o "_" \o slides_format \o "_"
        \o language_version \o ".mp4"

(* --------------------------------------------------------------- orders *)
orders ==
    <<
      << <<"en-US", "english_word">>, <<"de-DE", "german_word">>,
         <<"en-US", "english_sentence">>, <<"de-DE", "german_sentence">> >>,
      << <<"de-DE", "german_word">>, <<"en-US", "english_word">>,
         <<"de-DE", "german_sentence">>, <<"en-US", "english_sentence">> >>
    >>

\* _get_orders, for a valid language_mode
_get_orders(language_mode) ==
    IF language_mode = "EN_DE" THEN <<orders[1]>>
    ELSE IF language_mode = "DE_EN" THEN <<orders[2]>>
    ELSE orders

\* the dict `orders` of generate_video
video_orders == [m \in {"EN_DE", "DE_EN"} |->
                    IF m = "EN_DE" THEN orders[1] ELSE orders[2]]

\* order_idx = 0 if language_version == 'EN_DE' else 1
video_order_idx(language_version) == IF language_version = "EN_DE" THEN 0 ELSE 1

\* every ordering of a row exported under index 0
audio_file_index_zero(language_version, order_idx) == 0

\* file_index = 0 if language_version != 'BOTH' else order_idx
audio_file_index(language_version, order_idx) ==
    IF language_version # "BOTH" THEN 0 ELSE order_idx

(* ------------------------------------------------------------- synthesis *)
\* _synthesize_text: the narration of one text in one language
_synthesize_text(text, language_code) == [lang |-> language_code, text |-> text]

\* _add_silence: silence + audio + silence
_add_silence(audio, duration) ==
    <<[lang |-> "silence", text |-> duration], audio,
      [lang |-> "silence", text |-> duration]>>

RECURSIVE combine_audio(_, _, _)
\* the inner loop of generate_audio over the first n (lang, column) pairs
combine_audio(row, order, n) ==
    IF n = 0 THEN <<>>
    ELSE combine_audio(row, order, n - 1)
            \o _add_silence(_synthesize_text(row[order[n][2]], order[n][1]), SilenceMs)

(* ----------------------------------------------------------------- state *)
VARIABLES
    dataframe,        \* the table read from words_file_path
    audio_version,    \* language_version passed to generate_audio
    video_version,    \* language_version passed to generate_video
    words_per_video,
    slides_format,
    pc,               \* "get_orders", "generate_audio", "video_start",
                      \* "generate_video", "done", "error"
    error,            \* the exception that ended the run, or "none"
    i,                \* row index of the running loop
    order_idx,        \* generate_audio: index into process_orders
    files,            \* the audio files on disk: file name -> content
    audio_clips,      \* generate_video accumulators
    video_clips,
    word_count,
    unique_words,
    opened,           \* audio files generate_video opened, in order
    written,          \* write_videofile calls, in order
    vocabulary,       \* process_data: the words of the chunk passed as df
    results,          \* _get_api_responses_for_dataframe: the parsed responses
    result_df         \* process_data: the flattened table returned

vars == <<dataframe, audio_version, video_version, words_per_video, slides_format,
          pc, error, i, order_idx, files, audio_clips, video_clips, word_count,
          unique_words, opened, written, vocabulary, results, result_df>>

sentences == <<vocabulary, results, result_df>>
params == <<dataframe, audio_version, video_version, words_per_video, slides_format>>
accumulator == <<audio_clips, video_clips, word_count, unique_words>>

SentencesIdle ==
    /\ vocabulary = <<>>
    /\ results = <<>>
    /\ result_df = <<>>

InitRun ==
    /\ SentencesIdle
    /\ pc = "get_orders"
    /\ error = "none"
    /\ i = 0
    /\ order_idx = 0
    /\ files = [f \in {} |-> <<>>]
    /\ audio_clips = <<>>
    /\ video_clips = <<>>
    /\ word_count = 0
    /\ unique_words = {}
    /\ opened = <<>>
    /\ written = <<>>

Init ==
    /\ dataframe \in Tables
    /\ audio_version \in LanguageModes
    /\ video_version \in LanguageModes
    /\ words_per_video \in 1..MaxWordsPerVideo
    /\ slides_format \in SlidesFormats
    /\ InitRun

\* the script's calls (lines 191-194: one language_version for both calls,
\* words_per_video = 10) on a table of the third scenario
InitScenario3 ==
    /\ dataframe \in ScenarioTables
    /\ audio_version \in LanguageModes
    /\ video_version = audio_version
    /\ words_per_video = ScenarioWordsPerVideo
    /\ slides_format \in SlidesFormats
    /\ InitRun

(* ------------------------------------------------------- generate_audio *)
\* combined_audio.export(filename): the file is created or overwritten
export(disk, filename, content) ==
    [f \in DOMAIN disk \cup {filename} |-> IF f = filename THEN content ELSE disk[f]]

\* line 88: _get_orders raises ValueError on an unknown language_mode
GetOrdersInvalid ==
    /\ pc = "get_orders"
    /\ audio_version \notin {"EN_DE", "DE_EN", "BOTH"}
    /\ pc' = "error"
    /\ error' = "ValueError"
    /\ UNCHANGED <<sentences, params, i, order_idx, files, accumulator, opened, written>>

GetOrders ==
    /\ pc = "get_orders"
    /\ audio_version \in {"EN_DE", "DE_EN", "BOTH"}
    /\ pc' = IF Len(dataframe) = 0 THEN "video_start" ELSE "generate_audio"
    /\ UNCHANGED <<sentences, params, error, i, order_idx, files, accumulator, opened, written>>

\* lines 91-104: one ordering of one row is synthesized and exported
GenerateAudio ==
    /\ pc = "generate_audio"
    /\ LET process_orders == _get_orders(audio_version)
           row == dataframe[i + 1]
           order == process_orders[order_idx + 1]
           combined_audio == combine_audio(row, order, Len(order))
           filename == audio_file_name(i, audio_file_index(audio_version, order_idx))
       IN  /\ files' = export(files, filename, combined_audio)
           /\ IF order_idx + 1 < Len(process_orders)
              THEN /\ order_idx' = order_idx + 1
                   /\ UNCHANGED <<i, pc>>
              ELSE /\ order_idx' = 0
                   /\ IF i + 1 < Len(dataframe)
                      THEN i' = i + 1 /\ pc' = pc
                      ELSE i' = 0 /\ pc' = "video_start"
    /\ UNCHANGED <<sentences, params, error, accumulator, opened, written>>

\* a failed synthesis that is reported while the loop goes on to the next row
GenerateAudioSkipsRow ==
    /\ pc = "generate_audio"
    /\ i + 1 < Len(dataframe)
    /\ error' = "SynthesisError"
    /\ i' = i + 1
    /\ order_idx' = 0
    /\ UNCHANGED <<sentences, params, pc, files, accumulator, opened, written>>

\* line 94: synthesize_speech raises for one of the fields of the ordering;
\* nothing catches it, combined_audio is lost and the export of line 103 is
\* not reached
GenerateAudioFails ==
    /\ pc = "generate_audio"
    /\ pc' = "error"
    /\ error' = "SynthesisError"
    /\ UNCHANGED <<sentences, params, i, order_idx, files, accumulator, opened, written>>

(* ------------------------------------------------------- generate_video *)
\* lines 136-137: ValueError unless language_version is EN_DE or DE_EN
VideoStartInvalid ==
    /\ pc = "video_start"
    /\ video_version \notin DOMAIN video_orders
    /\ pc' = "error"
    /\ error' = "ValueError"
    /\ UNCHANGED <<sentences, params, i, order_idx, files, accumulator, opened, written>>

\* lines 139-142
VideoStart ==
    /\ pc = "video_start"
    /\ video_version \in DOMAIN video_orders
    /\ video_clips' = <<>>
    /\ audio_clips' = <<>>
    /\ word_count' = 0
    /\ unique_words' = {}
    /\ i' = 0
    /\ pc' = IF Len(dataframe) = 0 THEN "done" ELSE "generate_video"
    /\ UNCHANGED <<sentences, params, error, order_idx, files, opened, written>>

\* the length in ms of the narration the speech service returns for a text
speech_ms(text) == 600 + 137 * (text % 7)

RECURSIVE audio_duration(_)
\* the length in ms of an exported artifact: its silences and narrations
audio_duration(content) ==
    IF content = <<>> THEN 0
    ELSE (IF Head(content).lang = "silence" THEN Head(content).text
          ELSE speech_ms(Head(content).text))
         + audio_duration(Tail(content))

\* line 148: AudioFileClip(audio_filename) of an existing file
AudioFileClip(index, audio_filename, disk) ==
    [row |-> index, filename |-> audio_filename, found |-> TRUE,
     content |-> disk[audio_filename],
     duration |-> audio_duration(disk[audio_filename])]

\* a caption shown for the whole length of the audio
_generate_text_clip_full(text, audio, duration_split) ==
    [text |-> text, audio |-> audio.filename, duration_split |-> duration_split,
     duration |-> [num |-> audio.duration, den |-> 1]]

\* _generate_text_clip: a caption shown for audio.duration / duration_split
\* (a float division by 2 or 4, which is exact: kept as the fraction num/den)
_generate_text_clip(text, audio, duration_split) ==
    [text |-> text, audio |-> audio.filename, duration_split |-> duration_split,
     duration |-> [num |-> audio.duration, den |-> duration_split]]

\* lines 151-162: the overlays of one row
row_clips(row, order, audio, format) ==
    IF format = "4slides"
    THEN [k \in 1..Len(order) |-> _generate_text_clip(<<row[order[k][2]]>>, audio, 4)]
    ELSE <<_generate_text_clip(<<row[order[1][2]], row[order[2][2]]>>, audio, 2),
           _generate_text_clip(<<row[order[3][2]], row[order[4][2]]>>, audio, 2)>>

\* a batch that is closed only when the threshold is reached
batch_closes_no_flush(count, per_video, index, length) ==
    count = per_video

\* line 173
batch_closes(count, per_video, index, length) ==
    count = per_video \/ index = length - 1

\* a counter that counts rows, not distinct words
count_word_rows(current_word, words, count) == count + 1

\* lines 169-171: the running count of distinct words of the batch
count_word(current_word, words, count) ==
    IF current_word \notin words THEN count + 1 ELSE count

\* a word set that survives the close of a batch
next_unique_words_kept(words, closes) == words

\* lines 170 and 183: the word set after the row; emptied when the batch closes
next_unique_words(words, closes) == IF closes THEN {} ELSE words

\* line 148: AudioFileClip raises when the file does not exist
VideoRowAudioMissing ==
    /\ pc = "generate_video"
    /\ LET audio_filename == audio_file_name(i, video_order_idx(video_version))
       IN  /\ audio_filename \notin DOMAIN files
           /\ opened' = Append(opened, [row |-> i, filename |-> audio_filename,
                                         found |-> FALSE, content |-> <<>>,
                                         duration |-> 0])
    /\ pc' = "error"
    /\ error' = "OSError"
    /\ UNCHANGED <<sentences, params, i, order_idx, files, accumulator, written>>

\* lines 163-164: ValueError on an unknown slides_format, after the audio
\* clip of the row was appended
VideoRowInvalidSlides ==
    /\ pc = "generate_video"
    /\ slides_format \notin {"2slides", "4slides"}
    /\ LET audio_filename == audio_file_name(i, video_order_idx(video_version))
           audio == AudioFileClip(i, audio_filename, files)
       IN  /\ audio_filename \in DOMAIN files
           /\ opened' = Append(opened, audio)
           /\ audio_clips' = Append(audio_clips, audio)
    /\ pc' = "error"
    /\ error' = "ValueError"
    /\ UNCHANGED <<sentences, params, i, order_idx, files, video_clips, word_count,
                   unique_words, written>>

\* lines 108-110: TextClip raises for a text of the row (lines 155, 160-161),
\* after the audio clip of the row was appended; nothing catches it
VideoRowRenderFails ==
    /\ pc = "generate_video"
    /\ slides_format \in {"2slides", "4slides"}
    /\ LET audio_filename == audio_file_name(i, video_order_idx(video_version))
           audio == AudioFileClip(i, audio_filename, files)
       IN  /\ audio_filename \in DOMAIN files
           /\ opened' = Append(opened, audio)
           /\ audio_clips' = Append(audio_clips, audio)
    /\ pc' = "error"
    /\ error' = "RenderError"
    /\ UNCHANGED <<sentences, params, i, order_idx, files, video_clips, word_count,
                   unique_words, written>>

\* lines 144-183: one iteration of the loop of generate_video
VideoRow ==
    /\ pc = "generate_video"
    /\ slides_format \in {"2slides", "4slides"}
    /\ LET row == dataframe[i + 1]
           order == video_orders[video_version]
           audio_filename == audio_file_name(i, video_order_idx(video_version))
           audio == AudioFileClip(i, audio_filename, files)
           audios == Append(audio_clips, audio)
           videos == Append(video_clips,
                            [row |-> i,
                             clips |-> row_clips(row, order, audio, slides_format)])
           current_word == row.german_word
           words == unique_words \cup {current_word}
           count == count_word(current_word, unique_words, word_count)
       IN  /\ audio_filename \in DOMAIN files
           /\ opened' = Append(opened, audio)
           /\ IF batch_closes(count, words_per_video, i, Len(dataframe))
              THEN /\ written' = Append(written,
                        [name |-> video_file_name(batch_number(i, words_per_video),
                                                  slides_format, video_version),
                         number |-> batch_number(i, words_per_video),
                         video |-> videos,
                         audio |-> audios])
                   /\ video_clips' = <<>>
                   /\ audio_clips' = <<>>
                   /\ word_count' = 0
                   /\ unique_words' = next_unique_words(words, TRUE)
              ELSE /\ video_clips' = videos
                   /\ audio_clips' = audios
                   /\ word_count' = count
                   /\ unique_words' = next_unique_words(words, FALSE)
                   /\ UNCHANGED written
    /\ IF i + 1 < Len(dataframe)
       THEN i' = i + 1 /\ pc' = pc
       ELSE i' = i /\ pc' = "done"
    /\ UNCHANGED <<sentences, params, error, order_idx, files>>

Next ==
    \/ GetOrdersInvalid
    \/ GetOrders
    \/ GenerateAudio
    \/ GenerateAudioFails
    \/ VideoStartInvalid
    \/ VideoStart
    \/ VideoRowAudioMissing
    \/ VideoRowInvalidSlides
    \/ VideoRowRenderFails
    \/ VideoRow

Spec == Init /\ [][Next]_vars

SpecScenario3 == InitScenario3 /\ [][Next]_vars

(* ======================================================= gpt_langchain.py *)
FieldNames == {"german_word", "english_word", "german_sentence", "english_sentence"}

FieldCode(f) ==
    CASE f = "german_word" -> 1
      [] f = "english_word" -> 2
      [] f = "german_sentence" -> 3
      [] f = "english_sentence" -> 4

\* the j-th text of field f in the model's answer for entry e
Text(e, f, j) == 1000 * e + 100 * FieldCode(f) + j

\* The answers the model may give for entry e: up to MaxMeanings german_word
\* texts, every other list as long, one shorter or one longer; or an answer
\* that lacks one of the four fields.
ListLengths ==
    {lens \in [FieldNames -> 0..(MaxMeanings + 1)] :
        /\ lens["german_word"] \in 1..MaxMeanings
        /\ \A f \in FieldNames :
              lens[f] \in (lens["german_word"] - 1)..(lens["german_word"] + 1)}

Responses(e) ==
    {[f \in FieldNames |-> [j \in 1..lens[f] |-> Text(e, f, j)]] : lens \in ListLengths}
    \cup {[f \in FieldNames \ {missing} |-> <<Text(e, f, 1)>>] : missing \in FieldNames}

\* output_parser.parse: the four expected keys must be present
parse_ok(response) == DOMAIN response = FieldNames

\* lines 152-157: item[...][i] raises IndexError past the end of a list
row_ok(item, m) == \A f \in FieldNames : m <= Len(item[f])

flat_row(item, m) ==
    [german_word |-> item["german_word"][m],
     english_word |-> item["english_word"][m],
     german_sentence |-> item["german_sentence"][m],
     english_sentence |-> item["english_sentence"][m]]

\* a row put in front of the rows emitted so far
prepend_row(flat_data, row) == <<row>> \o flat_data

\* flat_data.append(...)
append_row(flat_data, row) == Append(flat_data, row)

\* a meaning loop that stops one short
num_entries_short(item) == Len(item["german_word"]) - 1

\* line 150
num_entries(item) == Len(item["german_word"])

RECURSIVE flatten_item(_, _, _)
\* lines 151-157 from the m-th meaning on: the rows after the loop, or the
\* IndexError that ends it
flatten_item(item, m, flat_data) ==
    IF m > num_entries(item) THEN [ok |-> TRUE, rows |-> flat_data]
    ELSE IF ~row_ok(item, m) THEN [ok |-> FALSE, rows |-> <<>>]
    ELSE flatten_item(item, m + 1, append_row(flat_data, flat_row(item, m)))

RECURSIVE flatten_from(_, _, _)
\* lines 149-157 from the k-th item on
flatten_from(list_of_dicts, k, flat_data) ==
    IF k > Len(list_of_dicts) THEN [ok |-> TRUE, rows |-> flat_data]
    ELSE LET after == flatten_item(list_of_dicts[k], 1, flat_data)
         IN  IF after.ok THEN flatten_from(list_of_dicts, k + 1, after.rows)
             ELSE after

\* lines 148-159
_create_dataframe_from_list_of_dict(list_of_dicts) ==
    flatten_from(list_of_dicts, 1, <<>>)

MediaIdle ==
    /\ dataframe = <<>>
    /\ audio_version = "EN_DE"
    /\ video_version = "EN_DE"
    /\ words_per_video = 1
    /\ slides_format = "2slides"
    /\ error = "none"
    /\ i = 0
    /\ order_idx = 0
    /\ files = [f \in {} |-> <<>>]
    /\ audio_clips = <<>>
    /\ video_clips = <<>>
    /\ word_count = 0
    /\ unique_words = {}
    /\ opened = <<>>
    /\ written = <<>>

media == <<params, i, order_idx, files, accumulator, opened, written>>

\* process_data on a chunk of 1..MaxEntries words
InitSentences ==
    /\ MediaIdle
    /\ vocabulary \in {[e \in 1..n |-> e] : n \in 1..MaxEntries}
    /\ results = <<>>
    /\ result_df = <<>>
    /\ pc = "get_api_responses"

\* lines 111-112: the parser rejects an answer without the four fields
ApiResponseRejected ==
    /\ pc = "get_api_responses"
    /\ \E response \in Responses(Len(results) + 1) : ~parse_ok(response)
    /\ pc' = "error"
    /\ error' = "OutputParserException"
    /\ UNCHANGED <<media, sentences>>

\* lines 127-134: one iteration of _get_api_responses_for_dataframe
ApiResponse ==
    /\ pc = "get_api_responses"
    /\ \E response \in Responses(Len(results) + 1) :
          /\ parse_ok(response)
          /\ results' = Append(results, response)
    /\ pc' = IF Len(results) + 1 = Len(vocabulary)
             THEN "create_dataframe" ELSE "get_api_responses"
    /\ UNCHANGED <<media, error, vocabulary, result_df>>

\* line 210, IndexError out of _create_dataframe_from_list_of_dict
CreateDataframeIndexError ==
    /\ pc = "create_dataframe"
    /\ ~_create_dataframe_from_list_of_dict(results).ok
    /\ pc' = "error"
    /\ error' = "IndexError"
    /\ UNCHANGED <<media, sentences>>

\* lines 210-211
CreateDataframe ==
    /\ pc = "create_dataframe"
    /\ LET flat == _create_dataframe_from_list_of_dict(results)
       IN  /\ flat.ok
           /\ result_df' = flat.rows
    /\ pc' = "returned"
    /\ UNCHANGED <<media, error, vocabulary, results>>

NextSentences ==
    \/ ApiResponseRejected
    \/ ApiResponse
    \/ CreateDataframeIndexError
    \/ CreateDataframe

SpecSentences == InitSentences /\ [][NextSentences]_vars

(* ================================================================ claims *)
\* the rows (0-based positions) of an emitted batch, in order
BatchRows(b) == [k \in 1..Len(b.video) |-> b.video[k].row]

\* the distinct german_word values of a sequence of row positions
WordsOfRows(rows) == {dataframe[rows[k] + 1].german_word : k \in 1..Len(rows)}

GermanWords == [k \in 1..Len(dataframe) |-> dataframe[k].german_word]

\* the row position just after the close of batch k of `written`
NextRowAfter(k) ==
    IF k = 0 THEN 0
    ELSE LET rows == BatchRows(written[k]) IN rows[Len(rows)] + 1

\* batch k holds exactly the rows since the previous close, in order
RowsSinceLastClose(k) ==
    LET rows == BatchRows(written[k])
    IN  /\ Len(rows) >= 1
        /\ \A j \in 1..Len(rows) : rows[j] = NextRowAfter(k - 1) + j - 1

\* C1: a batch is closed at a row only if the number of distinct source words
\* accumulated since the last close equals words_per_video or the row is the
\* last one; with words_per_video = 3 and the words [A,A,B,C,D] the first batch
\* is the 4 rows A,A,B,C (closed where C is first seen).
C1_BatchClosesOnDistinctWords ==
    /\ \A k \in 1..Len(written) :
          LET rows == BatchRows(written[k])
          IN  /\ RowsSinceLastClose(k)
              /\ \/ Cardinality(WordsOfRows(rows)) = words_per_video
                 \/ rows[Len(rows)] = Len(dataframe) - 1
    /\ (GermanWords = <<1, 1, 2, 3, 4>> /\ words_per_video = 3 /\ Len(written) >= 1)
          => BatchRows(written[1]) = <<0, 1, 2, 3>>

C1_Witness ==
    /\ GermanWords = <<1, 1, 2, 3, 4>>
    /\ words_per_video = 3
    /\ Len(written) = 1
    /\ i = 4

AllWords == {dataframe[k].german_word : k \in 1..Len(dataframe)}

\* C2: on a table of 25 rows spanning 12 distinct words (rows of one word
\* adjacent) with words_per_video = 10, generate_video emits exactly 2 batches,
\* the first with rows of exactly 10 distinct words and the second with rows of
\* exactly the remaining 2 words.
C2_TwoBatchesTenAndTwoWords ==
    pc = "done" =>
        /\ Len(written) = 2
        /\ Cardinality(WordsOfRows(BatchRows(written[1]))) = 10
        /\ WordsOfRows(BatchRows(written[2]))
              = AllWords \ WordsOfRows(BatchRows(written[1]))
        /\ Cardinality(WordsOfRows(BatchRows(written[2]))) = 2

\* C3: the k-th batch emitted by generate_video is written with
\* batchNumber = k (sequential numbering starting at 1).
C3_BatchNumbersSequential ==
    \A k \in 1..Len(written) : written[k].number = k

\* C4: once generate_video has gone through a non-empty table, every row
\* belongs to exactly one emitted batch, no emitted batch is empty, and the
\* final batch is emitted on its own even when it holds fewer than
\* words_per_video distinct words (every earlier batch is a full one).
C4_FinalPartialBatchEmitted ==
    (pc = "done" /\ Len(dataframe) > 0) =>
        /\ Len(written) >= 1
        /\ \A k \in 1..Len(written) : RowsSinceLastClose(k)
        /\ NextRowAfter(Len(written)) = Len(dataframe)
        /\ \A k \in 1..(Len(written) - 1) :
              Cardinality(WordsOfRows(BatchRows(written[k]))) = words_per_video

C4_Witness ==
    /\ pc = "done"
    /\ Len(written) >= 2
    /\ Cardinality(WordsOfRows(BatchRows(written[Len(written)]))) < words_per_video

IsSpeech(part) == part.lang # "silence"

\* what an artifact narrates: its parts without the silences
Narration(content) == SelectSeq(content, IsSpeech)

EnglishFirst(row) ==
    <<[lang |-> "en-US", text |-> row.english_word],
      [lang |-> "de-DE", text |-> row.german_word],
      [lang |-> "en-US", text |-> row.english_sentence],
      [lang |-> "de-DE", text |-> row.german_sentence]>>

GermanFirst(row) ==
    <<[lang |-> "de-DE", text |-> row.german_word],
      [lang |-> "en-US", text |-> row.english_word],
      [lang |-> "de-DE", text |-> row.german_sentence],
      [lang |-> "en-US", text |-> row.english_sentence]>>

OrderingOf(mode, row) == IF mode = "EN_DE" THEN EnglishFirst(row) ELSE GermanFirst(row)

\* C5: for M in {EN_DE, DE_EN}, after generate_audio(table, M) and
\* generate_video(table, ..., M), the audio file generate_video opens for a row
\* is a file generate_audio wrote for that row, narrated in the ordering of M.
C5_VideoOpensWhatAudioWrote ==
    (audio_version = video_version /\ audio_version \in {"EN_DE", "DE_EN"}) =>
        \A k \in 1..Len(opened) :
            /\ opened[k].found
            /\ Narration(opened[k].content)
                  = OrderingOf(video_version, dataframe[opened[k].row + 1])

AudioGenerated == pc \in {"video_start", "generate_video", "done"}

RowPositions == 0..(Len(dataframe) - 1)

\* C10: after generate_audio, with BOTH every row has exactly 2 artifacts,
\* under the two different keys {row}_0 and {row}_1, English-first and
\* German-first, narrating the same four texts; with EN_DE or DE_EN every row
\* has exactly 1 artifact, in that mode's ordering.
C10_ArtifactsPerRow ==
    AudioGenerated =>
        /\ audio_version = "BOTH" =>
              /\ Cardinality(DOMAIN files) = 2 * Len(dataframe)
              /\ \A r \in RowPositions :
                    LET first == audio_file_name(r, 0)
                        second == audio_file_name(r, 1)
                        row == dataframe[r + 1]
                    IN  /\ first # second
                        /\ {first, second} \subseteq DOMAIN files
                        /\ Narration(files[first]) = EnglishFirst(row)
                        /\ Narration(files[second]) = GermanFirst(row)
                        /\ files[first] # files[second]
                        /\ {p.text : p \in {files[first][k] : k \in 1..Len(files[first])}}
                             = {p.text : p \in {files[second][k] : k \in 1..Len(files[second])}}
        /\ audio_version \in {"EN_DE", "DE_EN"} =>
              /\ Cardinality(DOMAIN files) = Len(dataframe)
              /\ \A r \in RowPositions :
                    /\ audio_file_name(r, 0) \in DOMAIN files
                    /\ Narration(files[audio_file_name(r, 0)])
                          = OrderingOf(audio_version, dataframe[r + 1])

C10_Witness ==
    /\ AudioGenerated
    /\ audio_version = "BOTH"
    /\ Len(dataframe) >= 2
    /\ Cardinality(DOMAIN files) = 2 * Len(dataframe)

RECURSIVE RowsBefore(_)
\* the number of rows the records before the k-th one call for
RowsBefore(k) ==
    IF k <= 1 THEN 0 ELSE RowsBefore(k - 1) + Len(results[k - 1]["german_word"])

\* C6: flattening emits, for each record, exactly len(record.german_word)
\* rows, the i-th of them holding the i-th element of each of the record's
\* four lists; the total number of rows is the sum of the list lengths.
C6_OneRowPerMeaning ==
    pc = "returned" =>
        /\ Len(result_df) = RowsBefore(Len(results) + 1)
        /\ \A k \in 1..Len(results) :
              \A m \in 1..Len(results[k]["german_word"]) :
                  LET row == result_df[RowsBefore(k) + m]
                  IN  \A f \in FieldNames : row[f] = results[k][f][m]

C6_Witness ==
    /\ pc = "returned"
    /\ Len(results) = 2
    /\ Len(results[1]["german_word"]) = 2
    /\ Len(result_df) >= 3

\* the record and the meaning index a text belongs to
EntryOf(text) == text \div 1000
MeaningOf(text) == text % 100

\* C7: flatten(r1 ++ r2) = flatten(r1) ++ flatten(r2) for every split of the
\* record list (a failure of the whole being a failure of a part), and the rows
\* come in record order, then in increasing meaning-index order.
C7_FlattenDistributes ==
    pc \in {"returned", "error"} /\ Len(results) = Len(vocabulary) =>
        \A k \in 0..Len(results) :
            LET r1 == _create_dataframe_from_list_of_dict(SubSeq(results, 1, k))
                r2 == _create_dataframe_from_list_of_dict(
                          SubSeq(results, k + 1, Len(results)))
            IN  IF pc = "returned"
                THEN /\ r1.ok /\ r2.ok
                     /\ result_df = r1.rows \o r2.rows
                     /\ \A p, q \in 1..Len(result_df) :
                           p < q =>
                             LET a == result_df[p]["english_word"]
                                 b == result_df[q]["english_word"]
                             IN  \/ EntryOf(a) < EntryOf(b)
                                 \/ /\ EntryOf(a) = EntryOf(b)
                                    /\ MeaningOf(a) < MeaningOf(b)
                ELSE ~r1.ok \/ ~r2.ok

C7_Witness ==
    /\ pc = "returned"
    /\ Len(results) = 2
    /\ Len(results[1]["german_word"]) = 2
    /\ Len(results[2]["german_word"]) = 2
    /\ Len(result_df) = 4

LengthsDisagree(item) ==
    \E f, g \in DOMAIN item : Len(item[f]) # Len(item[g])

\* C8: flattening fails whenever a record's four lists are not all of equal
\* length, shorter or longer than german_word: it never returns a table for
\* such an input, and no row of a mismatched record appears in the output.
C8_MismatchedRecordFails ==
    /\ pc = "returned" => \A k \in 1..Len(results) : ~LengthsDisagree(results[k])
    /\ \A p \in 1..Len(result_df) :
          LET item == results[EntryOf(result_df[p]["english_word"])]
          IN  \A f \in FieldNames : Len(item[f]) = Len(item["german_word"])

\* C9: a malformed model output (a missing field, or lists of differing
\* length) raises a generation error for that entry, so it is never accepted
\* into the responses, and process_data produces no flat row from it.
C9_MalformedOutputRaises ==
    /\ \A k \in 1..Len(results) :
          parse_ok(results[k]) /\ ~LengthsDisagree(results[k])
    /\ \A p \in 1..Len(result_df) :
          ~LengthsDisagree(results[EntryOf(result_df[p]["german_word"])])

\* C11: if the synthesis of one of a row's fields fails, no artifact file at
\* all exists for that row, in every language mode, BOTH included (where the
\* second ordering may fail after the first one was synthesized).
C11_NoArtifactForFailedRow ==
    (pc = "error" /\ error = "SynthesisError") =>
        \A o \in {0, 1} : audio_file_name(i, o) \notin DOMAIN files

\* a row with an exported artifact / a row placed in an emitted batch
HasArtifact(r) == \E o \in {0, 1} : audio_file_name(r, o) \in DOMAIN files
InBatch(r) ==
    \E k \in 1..Len(written) :
        \E j \in 1..Len(written[k].video) : written[k].video[j].row = r

LaterRows == (i + 1)..(Len(dataframe) - 1)

RowFailure == error \in {"SynthesisError", "RenderError"}

Segments ==
    {video_clips[j] : j \in 1..Len(video_clips)}
    \cup UNION {{written[k].video[j] : j \in 1..Len(written[k].video)} :
                   k \in 1..Len(written)}

\* the total duration of the artifact generate_video opened for row r
ArtifactDuration(r) ==
    LET j == CHOOSE j \in 1..Len(opened) : opened[j].row = r
    IN  opened[j].duration

RECURSIVE SumOfNumerators(_)
SumOfNumerators(clips) ==
    IF clips = <<>> THEN 0
    ELSE Head(clips).duration.num + SumOfNumerators(Tail(clips))

\* C13: for a row whose artifact lasts T, the segment of format 4slides has
\* exactly 4 overlays, one per narrated field in the mode's ordering, each
\* lasting T/4; the segment of format 2slides has exactly 2 overlays, the word
\* pair then the sentence pair, each lasting T/2; the durations sum to T.
C13_OverlaysSplitTheDuration ==
    \A seg \in Segments :
        LET T == ArtifactDuration(seg.row)
            narrated == OrderingOf(video_version, dataframe[seg.row + 1])
            n == IF slides_format = "4slides" THEN 4 ELSE 2
        IN  /\ T > 0
            /\ Len(seg.clips) = n
            /\ \A k \in 1..n : seg.clips[k].duration = [num |-> T, den |-> n]
            /\ SumOfNumerators(seg.clips) = n * T
            /\ IF slides_format = "4slides"
               THEN \A k \in 1..4 : seg.clips[k].text = <<narrated[k].text>>
               ELSE /\ seg.clips[1].text = <<narrated[1].text, narrated[2].text>>
                    /\ seg.clips[2].text = <<narrated[3].text, narrated[4].text>>

C13_Witness ==
    /\ pc = "done"
    /\ slides_format = "4slides"
    /\ video_version = "DE_EN"
    /\ Len(dataframe) >= 2
    /\ \E seg \in Segments : ArtifactDuration(seg.row) % 4 # 0

\* the rows generate_video has gone through
Processed == IF pc = "done" THEN Len(dataframe) ELSE i

\* C14: at the end of every iteration of the loop of generate_video the
\* accumulated segment list and audio list have the same length and hold the
\* same rows in the same order (the rows since the last close), word_count is
\* the size of unique_words (the words of those rows), and right after a batch
\* is emitted both lists and the word set are empty and the counter is 0; the
\* emitted batches pair segments and audio in the same way.
C14_AccumulatorAlignedAndReset ==
    pc \in {"generate_video", "done"} =>
        LET start == NextRowAfter(Len(written))
        IN  /\ Len(video_clips) = Len(audio_clips)
            /\ Len(video_clips) = Processed - start
            /\ \A j \in 1..Len(video_clips) :
                  /\ video_clips[j].row = start + j - 1
                  /\ audio_clips[j].row = video_clips[j].row
            /\ word_count = Cardinality(unique_words)
            /\ unique_words = WordsOfRows([j \in 1..Len(video_clips) |->
                                              video_clips[j].row])
            /\ (Len(written) > 0 /\ start = Processed) =>
                  /\ video_clips = <<>>
                  /\ audio_clips = <<>>
                  /\ unique_words = {}
                  /\ word_count = 0
            /\ \A k \in 1..Len(written) :
                  /\ Len(written[k].video) = Len(written[k].audio)
                  /\ \A j \in 1..Len(written[k].video) :
                        written[k].audio[j].row = written[k].video[j].row

C14_Witness ==
    /\ pc = "generate_video"
    /\ Len(written) >= 1
    /\ Len(video_clips) >= 2
    /\ word_count = 1

\* C15: within one run of generate_video no two emitted batches are written
\* to the same output file name.
C15_BatchFileNamesDistinct ==
    \A j, k \in 1..Len(written) :
        j # k => written[j].name # written[k].name

\* the meaning rows of every word are adjacent
WordsAdjacent ==
    \A a, b \in 1..Len(dataframe) :
        (a < b /\ dataframe[a].german_word = dataframe[b].german_word) =>
            \A c \in a..b : dataframe[c].german_word = dataframe[a].german_word

\* C16: in a table whose words have adjacent meaning rows, all rows of one
\* german_word are in the same emitted batch: no word has rows in two batches.
C16_WordNotSplit ==
    WordsAdjacent =>
        \A j, k \in 1..Len(written) :
            j # k => WordsOfRows(BatchRows(written[j]))
                        \cap WordsOfRows(BatchRows(written[k])) = {}

====
